---------------------------- MODULE Spec2Model ----------------------------
(***************************************************************************)
(* A model of ms3-prep.py: the abstract classifier (test_abstract), the    *)
(* resource-marker inserter (test_additional_resources), the attribute     *)
(* normalizer (test_syntax_updates) and the directory walk of process().   *)
(* Lines are strings; the string operations are those of Python's str.     *)
(***************************************************************************)
EXTENDS Integers, Sequences, FiniteSets, TLC

(***************************************************************************)
(* Bounds of the model.                                                    *)
(***************************************************************************)
MaxLines == 3

(***************************************************************************)
(* Python's str operations, on strings.                                    *)
(***************************************************************************)
Whitespace == {" ", "\t", "\n", "\r", "\f"}

CharAt(s, i) == SubSeq(s, i, i)

\* index of the first character of s from i on that is no whitespace
RECURSIVE FirstSolid(_, _)
FirstSolid(s, i) ==
  IF i > Len(s) \/ CharAt(s, i) \notin Whitespace THEN i
  ELSE FirstSolid(s, i + 1)

\* index of the last character of s up to i that is no whitespace
RECURSIVE LastSolid(_, _)
LastSolid(s, i) ==
  IF i < 1 \/ CharAt(s, i) \notin Whitespace THEN i
  ELSE LastSolid(s, i - 1)

lstrip(s) == SubSeq(s, FirstSolid(s, 1), Len(s))

rstrip(s) == SubSeq(s, 1, LastSolid(s, Len(s)))

strip(s) == rstrip(lstrip(s))

startswith(s, prefix) ==
  /\ Len(s) >= Len(prefix)
  /\ SubSeq(s, 1, Len(prefix)) = prefix

endswith(s, suffix) ==
  /\ Len(s) >= Len(suffix)
  /\ SubSeq(s, Len(s) - Len(suffix) + 1, Len(s)) = suffix

startswith_any(s, prefixes) == \E p \in prefixes : startswith(s, p)

OccursAt(s, sub, i) ==
  /\ i >= 1
  /\ i + Len(sub) - 1 <= Len(s)
  /\ SubSeq(s, i, i + Len(sub) - 1) = sub

contains(s, sub) == \E i \in 1..(Len(s) + 1) : OccursAt(s, sub, i)

\* str.replace: scans left to right; after a match the scan resumes behind it
RECURSIVE replace(_, _, _)
replace(s, old, new) ==
  IF Len(s) < Len(old) THEN s
  ELSE IF OccursAt(s, old, 1)
       THEN new \o replace(SubSeq(s, Len(old) + 1, Len(s)), old, new)
       ELSE CharAt(s, 1) \o replace(SubSeq(s, 2, Len(s)), old, new)

(***************************************************************************)
(* Module-level state of the script.                                       *)
(***************************************************************************)
VARIABLES
  abstract_tag,             \* __abstract_tag__
  resource_tag,             \* __resource_tag__
  no_op,                    \* __no_op__
  files_missing_abstracts,  \* __files_missing_abstracts__
  ta,                       \* frame of test_abstract
  ar,                       \* frame of test_additional_resources
  su,                       \* frame of test_syntax_updates
  doc,                      \* the lines handed to the function under test
  hist,                     \* completed calls of test_abstract
  pc,                       \* position in __main__ and process
  argv,                     \* sys.argv[1:]
  dirs,                     \* the directories under '.', each a path of names
  listing,                  \* the file names each directory holds
  files,                    \* the contents of each file, by absolute path
  walk,                     \* directories os.walk has yet to yield
  dir_name,                 \* dir_name of process
  file_list,                \* rest of file_list of process
  read_lines,               \* lines of process
  files_missing_titles,     \* files_missing_titles of process
  opened_r,                 \* files opened for reading, in order
  opened_w                  \* files opened for writing, in order

procvars == <<pc, argv, dirs, listing, files, walk, dir_name, file_list,
              read_lines,
              files_missing_titles, opened_r, opened_w>>

funcvars == <<ta, ar, su, doc, hist>>

vars == <<abstract_tag, resource_tag, no_op, files_missing_abstracts,
          ta, ar, su, doc, hist, pc, argv, dirs, listing, files, walk,
          dir_name, file_list, read_lines, files_missing_titles, opened_r,
          opened_w>>

\* process is not running
ProcessIdle ==
  /\ pc = "idle" /\ argv = <<>> /\ dirs = {} /\ listing = <<>>
  /\ files = <<>> /\ walk = <<>> /\ dir_name = "" /\ file_list = <<>>
  /\ read_lines = <<>> /\ files_missing_titles = <<>>
  /\ opened_r = <<>> /\ opened_w = <<>>

DefaultAbstractTag == "[role=\"_abstract\"]"
DefaultResourceTag == "[role=\"_additional-resources\"]"
AlternateAbstractTag == "[role=\"system__abstract\"]"
AlternateResourceTag == "[role=\"system__additional-resources\"]"

\* the two settings of the markers: without and with --alternate
TagSettings ==
  { <<DefaultAbstractTag, DefaultResourceTag>>,
    <<AlternateAbstractTag, AlternateResourceTag>> }

Idle == [pc |-> "idle"]

\* the sequences over S of length at most n
SeqsUpTo(S, n) == UNION { [1..k -> S] : k \in 0..n }

(***************************************************************************)
(* test_abstract                                                           *)
(***************************************************************************)
PreamblePrefixes ==
  {"#", "/", "[", "=", "ifdef", "ifndef", "assembly_", "toc", "include", ":"}

NotAbstractPrefixes == {"|", "*", "include", "."}

\* IsPreamble with the anchor prefix '[' left out
IsPreamble_NoBracket(line) ==
  \/ strip(line) = ""
  \/ startswith_any(strip(line), PreamblePrefixes \ {"["})

\* line 54-55: a line skipped before the abstract
IsPreamble(line) ==
  \/ strip(line) = ""
  \/ startswith_any(strip(line), PreamblePrefixes)

\* line 64: a line that cannot open an abstract
IsNotAbstract(line) == startswith_any(strip(line), NotAbstractPrefixes)

\* AnyHasTag comparing whole lines instead of searching in them
AnyHasTag_Equals(lines) == \E i \in 1..Len(lines) : lines[i] = abstract_tag

\* line 37
AnyHasTag(lines) == \E i \in 1..Len(lines) : contains(lines[i], abstract_tag)

test_abstract_call(lines, noop, file_name) ==
  [pc |-> "entry", lines |-> lines, noop |-> noop, file_name |-> file_name,
   processed_lines |-> <<>>, has_abstract |-> FALSE, line_no |-> 0,
   abstract_search_complete |-> FALSE, ret |-> <<>>]

\* lines 35-49
AbstractEntryStep(f) ==
  IF AnyHasTag(f.lines)
  THEN [f EXCEPT !.has_abstract = TRUE, !.pc = "done", !.ret = f.lines]
  ELSE [f EXCEPT !.has_abstract = FALSE, !.pc = "loop", !.line_no = 0,
                 !.abstract_search_complete = FALSE]

AbstractCurrent(f) == f.lines[f.line_no + 1]

\* AbstractFlags testing the untrimmed line
AbstractFlags_NoStrip(f) ==
  /\ ~IsPreamble(AbstractCurrent(f))
  /\ ~f.abstract_search_complete
  /\ startswith_any(AbstractCurrent(f), NotAbstractPrefixes)

\* line 64: this iteration reports the file
AbstractFlags(f) ==
  /\ ~IsPreamble(AbstractCurrent(f))
  /\ ~f.abstract_search_complete
  /\ IsNotAbstract(AbstractCurrent(f))

\* line 73: this iteration inserts the tag
AbstractInserts(f) ==
  /\ ~IsPreamble(AbstractCurrent(f))
  /\ ~AbstractFlags(f)
  /\ ~f.abstract_search_complete
  /\ ~f.has_abstract /\ ~f.noop

\* AbstractLoopStep appending the tag behind the line instead of before it
AbstractLoopStep_TagAfter(f) ==
  LET line == AbstractCurrent(f) IN
  IF IsPreamble(line)
  THEN [f EXCEPT !.processed_lines = Append(@, line), !.line_no = @ + 1]
  ELSE IF AbstractFlags(f)
  THEN [f EXCEPT !.abstract_search_complete = TRUE,
                 !.processed_lines = Append(@, line), !.line_no = @ + 1]
  ELSE IF AbstractInserts(f)
  THEN [f EXCEPT !.processed_lines = Append(Append(@, line), abstract_tag \o "\n"),
                 !.has_abstract = TRUE,
                 !.abstract_search_complete = TRUE,
                 !.line_no = @ + 1]
  ELSE [f EXCEPT !.processed_lines = Append(@, line), !.line_no = @ + 1]

\* lines 51-82: one iteration of the loop
AbstractLoopStep(f) ==
  LET line == AbstractCurrent(f) IN
  IF IsPreamble(line)
  THEN [f EXCEPT !.processed_lines = Append(@, line), !.line_no = @ + 1]
  ELSE IF AbstractFlags(f)
  THEN [f EXCEPT !.abstract_search_complete = TRUE,
                 !.processed_lines = Append(@, line), !.line_no = @ + 1]
  ELSE IF AbstractInserts(f)
  THEN [f EXCEPT !.processed_lines = Append(Append(@, abstract_tag \o "\n"), line),
                 !.has_abstract = TRUE,
                 !.abstract_search_complete = TRUE,
                 !.line_no = @ + 1]
  ELSE [f EXCEPT !.processed_lines = Append(@, line), !.line_no = @ + 1]

\* line 84
AbstractReturnStep(f) == [f EXCEPT !.pc = "done", !.ret = f.processed_lines]

AbstractFiles == {"/docs/a.adoc"}

\* the lines the documents under test are made of
AbstractLines ==
  { "\n", "= Title\n", "[id=\"x\"]\n", "This is the intro.\n",
    "* first item\n", "  .Procedure\n", "|===\n", abstract_tag \o "\n" }

InitAbstract ==
  /\ \E t \in TagSettings : abstract_tag = t[1] /\ resource_tag = t[2]
  /\ no_op \in BOOLEAN
  /\ files_missing_abstracts = <<>>
  /\ doc \in SeqsUpTo(AbstractLines, MaxLines)
  /\ ta = Idle /\ ar = Idle /\ su = Idle
  /\ hist = <<>>
  /\ ProcessIdle

\* line 165, called three times over: on the document, on its own result, and
\* on the document again in the other run mode
CallAbstract ==
  /\ ta.pc = "idle"
  /\ Len(hist) < 3
  /\ \E f \in AbstractFiles :
       ta' = CASE Len(hist) = 0 -> test_abstract_call(doc, no_op, f)
               [] Len(hist) = 1 -> test_abstract_call(hist[1].ret, no_op, f)
               [] OTHER -> test_abstract_call(doc, ~no_op, f)
  /\ UNCHANGED <<abstract_tag, resource_tag, no_op, files_missing_abstracts,
                 ar, su, doc, hist>>
  /\ UNCHANGED procvars

AbstractEntry ==
  /\ ta.pc = "entry"
  /\ ta' = AbstractEntryStep(ta)
  /\ UNCHANGED <<abstract_tag, resource_tag, no_op, files_missing_abstracts,
                 ar, su, doc, hist>>
  /\ UNCHANGED procvars

AbstractLoop ==
  /\ ta.pc = "loop"
  /\ ta.line_no < Len(ta.lines)
  /\ ta' = AbstractLoopStep(ta)
  /\ files_missing_abstracts' =
       IF AbstractFlags(ta)
       THEN Append(files_missing_abstracts, ta.file_name)
       ELSE files_missing_abstracts
  /\ UNCHANGED <<abstract_tag, resource_tag, no_op, ar, su, doc, hist>>
  /\ UNCHANGED procvars

AbstractReturn ==
  /\ ta.pc = "loop"
  /\ ta.line_no >= Len(ta.lines)
  /\ ta' = AbstractReturnStep(ta)
  /\ UNCHANGED <<abstract_tag, resource_tag, no_op, files_missing_abstracts,
                 ar, su, doc, hist>>
  /\ UNCHANGED procvars

\* the caller takes the result (line 165)
AbstractDone ==
  /\ ta.pc = "done"
  /\ hist' = Append(hist, [lines |-> ta.lines, noop |-> ta.noop, ret |-> ta.ret,
                           missing |-> files_missing_abstracts])
  /\ ta' = Idle
  /\ UNCHANGED <<abstract_tag, resource_tag, no_op, files_missing_abstracts,
                 ar, su, doc>>
  /\ UNCHANGED procvars

NextAbstract ==
  \/ CallAbstract
  \/ AbstractEntry
  \/ AbstractLoop
  \/ AbstractReturn
  \/ AbstractDone

SpecAbstract == InitAbstract /\ [][NextAbstract]_vars

(***************************************************************************)
(* test_additional_resources                                               *)
(***************************************************************************)
\* line 98: an 'Additional resources' heading, in either spelling
IsResourcesHeading(line) ==
  \/ startswith(strip(line), ".Additional resources")
  \/ startswith(line, "== Additional resources")

test_additional_resources_call(lines, noop) ==
  [pc |-> "loop", lines |-> lines, noop |-> noop, processed_lines |-> <<>>,
   line_no |-> 0, ret |-> <<>>]

ResourcesCurrent(f) == f.lines[f.line_no + 1]

\* ResourcesInserts guarding the index with > 0 instead of > 1
ResourcesInserts_FromSecondLine(f) ==
  /\ IsResourcesHeading(ResourcesCurrent(f))
  /\ f.line_no > 0
  /\ strip(f.lines[f.line_no]) # resource_tag
  /\ ~f.noop

\* lines 98-104: this iteration inserts the tag (lines[line_no - 1] of the
\* source is f.lines[f.line_no] here, sequences being indexed from 1)
ResourcesInserts(f) ==
  /\ IsResourcesHeading(ResourcesCurrent(f))
  /\ f.line_no > 1
  /\ strip(f.lines[f.line_no]) # resource_tag
  /\ ~f.noop

\* lines 96-110: one iteration of the loop
ResourcesLoopStep(f) ==
  LET line == ResourcesCurrent(f) IN
  IF ResourcesInserts(f)
  THEN [f EXCEPT !.processed_lines = Append(Append(@, resource_tag \o "\n"), line),
                 !.line_no = @ + 1]
  ELSE [f EXCEPT !.processed_lines = Append(@, line), !.line_no = @ + 1]

\* line 112
ResourcesReturnStep(f) == [f EXCEPT !.pc = "done", !.ret = f.processed_lines]

\* the lines the documents under test are made of
ResourcesLines ==
  { "text\n", "  .Additional resources\n", "== Additional resources\n",
    " == Additional resources\n", "  " \o resource_tag \o "\n",
    "// " \o resource_tag \o "\n" }

InitResources ==
  /\ \E t \in TagSettings : abstract_tag = t[1] /\ resource_tag = t[2]
  /\ no_op \in BOOLEAN
  /\ files_missing_abstracts = <<>>
  /\ doc \in SeqsUpTo(ResourcesLines, MaxLines)
  /\ ta = Idle /\ ar = Idle /\ su = Idle
  /\ hist = <<>>
  /\ ProcessIdle

\* line 168
CallResources ==
  /\ ar.pc = "idle"
  /\ ar' = test_additional_resources_call(doc, no_op)
  /\ UNCHANGED <<abstract_tag, resource_tag, no_op, files_missing_abstracts,
                 ta, su, doc, hist>>
  /\ UNCHANGED procvars

ResourcesLoop ==
  /\ ar.pc = "loop"
  /\ ar.line_no < Len(ar.lines)
  /\ ar' = ResourcesLoopStep(ar)
  /\ UNCHANGED <<abstract_tag, resource_tag, no_op, files_missing_abstracts,
                 ta, su, doc, hist>>
  /\ UNCHANGED procvars

ResourcesReturn ==
  /\ ar.pc = "loop"
  /\ ar.line_no >= Len(ar.lines)
  /\ ar' = ResourcesReturnStep(ar)
  /\ UNCHANGED <<abstract_tag, resource_tag, no_op, files_missing_abstracts,
                 ta, su, doc, hist>>
  /\ UNCHANGED procvars

NextResources ==
  \/ CallResources
  \/ ResourcesLoop
  \/ ResourcesReturn

SpecResources == InitResources /\ [][NextResources]_vars

(***************************************************************************)
(* test_syntax_updates                                                     *)
(***************************************************************************)
DeprecatedToken == ":system-module-type:"
ReplacementToken == ":_module-type:"

test_syntax_updates_call(lines, noop) ==
  [pc |-> "loop", lines |-> lines, noop |-> noop, processed_lines |-> <<>>,
   line_no |-> 0, ret |-> <<>>]

\* lines 125-127: this iteration rewrites the line
SyntaxRewrites(f) ==
  /\ contains(strip(f.lines[f.line_no + 1]), DeprecatedToken)
  /\ ~f.noop

\* SyntaxLoopStep replacing the first occurrence only
SyntaxLoopStep_FirstOnly(f) ==
  LET line == f.lines[f.line_no + 1]
      first == CHOOSE i \in 1..Len(line) :
                 /\ OccursAt(line, DeprecatedToken, i)
                 /\ \A j \in 1..(i - 1) : ~OccursAt(line, DeprecatedToken, j)
      new == IF SyntaxRewrites(f)
             THEN SubSeq(line, 1, first - 1) \o ReplacementToken
                    \o SubSeq(line, first + Len(DeprecatedToken), Len(line))
             ELSE line
  IN [f EXCEPT !.lines[f.line_no + 1] = new,
               !.processed_lines = Append(@, new),
               !.line_no = @ + 1]

\* lines 123-133: one iteration of the loop; the line is rewritten in place
SyntaxLoopStep(f) ==
  LET line == f.lines[f.line_no + 1]
      new == IF SyntaxRewrites(f)
             THEN replace(line, DeprecatedToken, ReplacementToken)
             ELSE line
  IN [f EXCEPT !.lines[f.line_no + 1] = new,
               !.processed_lines = Append(@, new),
               !.line_no = @ + 1]

\* line 135
SyntaxReturnStep(f) == [f EXCEPT !.pc = "done", !.ret = f.processed_lines]

\* the lines the documents under test are made of
SyntaxLines ==
  { "text\n",
    ":system-module-type: procedure\n",
    "  :system-module-type: x :system-module-type:\n",
    ":system-module-type:system-module-type:\n",
    ":_module-type: concept\n",
    ":system-module-type\n" }

InitSyntax ==
  /\ \E t \in TagSettings : abstract_tag = t[1] /\ resource_tag = t[2]
  /\ no_op \in BOOLEAN
  /\ files_missing_abstracts = <<>>
  /\ doc \in SeqsUpTo(SyntaxLines, MaxLines)
  /\ ta = Idle /\ ar = Idle /\ su = Idle
  /\ hist = <<>>
  /\ ProcessIdle

\* line 171
CallSyntax ==
  /\ su.pc = "idle"
  /\ su' = test_syntax_updates_call(doc, no_op)
  /\ UNCHANGED <<abstract_tag, resource_tag, no_op, files_missing_abstracts,
                 ta, ar, doc, hist>>
  /\ UNCHANGED procvars

SyntaxLoop ==
  /\ su.pc = "loop"
  /\ su.line_no < Len(su.lines)
  /\ su' = SyntaxLoopStep(su)
  /\ UNCHANGED <<abstract_tag, resource_tag, no_op, files_missing_abstracts,
                 ta, ar, doc, hist>>
  /\ UNCHANGED procvars

SyntaxReturn ==
  /\ su.pc = "loop"
  /\ su.line_no >= Len(su.lines)
  /\ su' = SyntaxReturnStep(su)
  /\ UNCHANGED <<abstract_tag, resource_tag, no_op, files_missing_abstracts,
                 ta, ar, doc, hist>>
  /\ UNCHANGED procvars

NextSyntax ==
  \/ CallSyntax
  \/ SyntaxLoop
  \/ SyntaxReturn

SpecSyntax == InitSyntax /\ [][NextSyntax]_vars

(***************************************************************************)
(* The functions run to completion, as process calls them.                 *)
(***************************************************************************)
\* test_abstract: m.f is the frame and m.missing the missing-abstract list
RECURSIVE RunAbstract(_)
RunAbstract(m) ==
  IF m.f.pc = "done" THEN m
  ELSE IF m.f.pc = "entry"
  THEN RunAbstract([m EXCEPT !.f = AbstractEntryStep(m.f)])
  ELSE IF m.f.line_no < Len(m.f.lines)
  THEN RunAbstract([f |-> AbstractLoopStep(m.f),
                    missing |-> IF AbstractFlags(m.f)
                                THEN Append(m.missing, m.f.file_name)
                                ELSE m.missing])
  ELSE RunAbstract([m EXCEPT !.f = AbstractReturnStep(m.f)])

RECURSIVE RunResources(_)
RunResources(f) ==
  IF f.pc = "done" THEN f
  ELSE IF f.line_no < Len(f.lines)
  THEN RunResources(ResourcesLoopStep(f))
  ELSE RunResources(ResourcesReturnStep(f))

RECURSIVE RunSyntax(_)
RunSyntax(f) ==
  IF f.pc = "done" THEN f
  ELSE IF f.line_no < Len(f.lines)
  THEN RunSyntax(SyntaxLoopStep(f))
  ELSE RunSyntax(SyntaxReturnStep(f))

(***************************************************************************)
(* __main__ and process                                                    *)
(***************************************************************************)
MaxDepth == 2

Cwd == "/docs"

\* the names directories are drawn from, in the order scandir lists them
DirNames == <<"a", ".h">>

\* dir_name as os.walk('.') yields it
RECURSIVE WalkName(_)
WalkName(path) ==
  IF path = <<>> THEN "."
  ELSE WalkName(SubSeq(path, 1, Len(path) - 1)) \o "/" \o path[Len(path)]

\* os.path.abspath of a dir_name of the walk
abspath(d) == IF d = "." THEN Cwd ELSE Cwd \o SubSeq(d, 2, Len(d))

FilePath(d, file_name) == abspath(d) \o "/" \o file_name

\* the subdirectories os.walk descends into from path
Children(path) ==
  LET all == [i \in 1..Len(DirNames) |-> Append(path, DirNames[i])]
      present(c) == c \in dirs
  IN SelectSeq(all, present)

LowerCase == "abcdefghijklmnopqrstuvwxyz"
UpperCase == "ABCDEFGHIJKLMNOPQRSTUVWXYZ"

RECURSIVE upper(_)
upper(s) ==
  IF s = "" THEN ""
  ELSE LET c == CharAt(s, 1)
           C == IF \E i \in 1..Len(LowerCase) : CharAt(LowerCase, i) = c
                THEN CharAt(UpperCase,
                            CHOOSE i \in 1..Len(LowerCase) : CharAt(LowerCase, i) = c)
                ELSE c
       IN C \o upper(SubSeq(s, 2, Len(s)))

\* line 145
IsPrivate(d) == startswith(d, "./.")

\* line 154
IsSource(file_name) == endswith(file_name, "adoc") /\ file_name # "master.adoc"

\* line 159
HasTitle(ls) == \E i \in 1..Len(ls) : startswith(strip(ls[i]), "= ")

\* the trees: sets of paths closed under taking the parent
AllPaths == UNION { [1..k -> {DirNames[i] : i \in 1..Len(DirNames)}] : k \in 0..MaxDepth }

Trees ==
  { t \in SUBSET AllPaths :
      /\ <<>> \in t
      /\ \A p \in t : p = <<>> \/ SubSeq(p, 1, Len(p) - 1) \in t }

Listings == { <<"x.adoc">>, <<"master.adoc", "notes.txt", "x.adoc">> }

ProcessDocs ==
  { <<"= Title\n", "\n", "This is the intro.\n">>,
    <<"[id=\"x\"]\n", "* first item\n">>,
    <<":system-module-type: procedure\n", "Intro.\n", "\n",
      ".Additional resources\n">> }

Arguments ==
  { <<>>, <<"--no-op">>, <<"--alternate">>, <<"--no-op", "--alternate">>,
    <<"--verbose">> }

Answers == {"Y", " y\n", "N", ""}

\* lines 18-21, and the tree the script is started in
InitProcess ==
  /\ no_op = FALSE
  /\ files_missing_abstracts = <<>>
  /\ abstract_tag = DefaultAbstractTag
  /\ resource_tag = DefaultResourceTag
  /\ ta = Idle /\ ar = Idle /\ su = Idle /\ doc = <<>> /\ hist = <<>>
  /\ pc = "main"
  /\ argv \in Arguments
  /\ dirs \in Trees
  /\ listing \in Listings
  /\ \E d \in ProcessDocs :
       files = [p \in { FilePath(WalkName(t), listing[i]) :
                          t \in dirs, i \in 1..Len(listing) } |-> d]
  /\ walk = <<>> /\ dir_name = "" /\ file_list = <<>> /\ read_lines = <<>>
  /\ files_missing_titles = <<>>
  /\ opened_r = <<>> /\ opened_w = <<>>

\* lines 208-214
ParseArgs ==
  /\ pc = "main"
  /\ no_op' = (no_op \/ \E i \in 1..Len(argv) : argv[i] = "--no-op")
  /\ IF \E i \in 1..Len(argv) : argv[i] = "--alternate"
     THEN abstract_tag' = AlternateAbstractTag /\ resource_tag' = AlternateResourceTag
     ELSE UNCHANGED <<abstract_tag, resource_tag>>
  /\ pc' = "prompt"
  /\ UNCHANGED <<files_missing_abstracts, argv, dirs, listing, files, walk,
                 dir_name, file_list, read_lines, files_missing_titles,
                 opened_r, opened_w>>
  /\ UNCHANGED funcvars

\* lines 226-230, and line 142 starting the walk at '.'
Prompt ==
  /\ pc = "prompt"
  /\ \E input_proceed \in Answers :
       IF upper(strip(input_proceed)) = "Y"
       THEN pc' = "walk" /\ walk' = << <<>> >>
       ELSE pc' = "done" /\ walk' = walk
  /\ UNCHANGED <<abstract_tag, resource_tag, no_op, files_missing_abstracts,
                 argv, dirs, listing, files, dir_name, file_list, read_lines,
                 files_missing_titles, opened_r, opened_w>>
  /\ UNCHANGED funcvars

\* lines 142-146: os.walk yields a private directory, which is passed over;
\* the walk itself still descends into it
WalkSkip ==
  /\ pc = "walk"
  /\ walk # <<>>
  /\ IsPrivate(WalkName(Head(walk)))
  /\ walk' = Children(Head(walk)) \o Tail(walk)
  /\ dir_name' = WalkName(Head(walk))
  /\ UNCHANGED <<abstract_tag, resource_tag, no_op, files_missing_abstracts,
                 pc, argv, dirs, listing, files, file_list, read_lines,
                 files_missing_titles, opened_r, opened_w>>
  /\ UNCHANGED funcvars

\* lines 142-152: os.walk yields a directory whose files are gone through
WalkEnter ==
  /\ pc = "walk"
  /\ walk # <<>>
  /\ ~IsPrivate(WalkName(Head(walk)))
  /\ walk' = Children(Head(walk)) \o Tail(walk)
  /\ dir_name' = WalkName(Head(walk))
  /\ file_list' = listing
  /\ pc' = "files"
  /\ UNCHANGED <<abstract_tag, resource_tag, no_op, files_missing_abstracts,
                 argv, dirs, listing, files, read_lines,
                 files_missing_titles, opened_r, opened_w>>
  /\ UNCHANGED funcvars

\* line 154, false
FileSkip ==
  /\ pc = "files"
  /\ file_list # <<>>
  /\ ~IsSource(Head(file_list))
  /\ file_list' = Tail(file_list)
  /\ UNCHANGED <<abstract_tag, resource_tag, no_op, files_missing_abstracts,
                 pc, argv, dirs, listing, files, walk, dir_name, read_lines,
                 files_missing_titles, opened_r, opened_w>>
  /\ UNCHANGED funcvars

\* lines 154-171: the file is read and taken through the three stages
ReadFile ==
  /\ pc = "files"
  /\ file_list # <<>>
  /\ IsSource(Head(file_list))
  /\ LET path == FilePath(dir_name, Head(file_list))
         read == files[path]
         a == RunAbstract([f |-> test_abstract_call(read, no_op, path),
                           missing |-> files_missing_abstracts])
         r == RunResources(test_additional_resources_call(a.f.ret, no_op))
         u == RunSyntax(test_syntax_updates_call(r.ret, no_op))
     IN /\ opened_r' = Append(opened_r, path)
        /\ files_missing_titles' =
             IF HasTitle(read) THEN files_missing_titles
             ELSE Append(files_missing_titles, path)
        /\ files_missing_abstracts' = a.missing
        /\ read_lines' = u.ret
  /\ pc' = "write"
  /\ UNCHANGED <<abstract_tag, resource_tag, no_op, argv, dirs, listing, files,
                 walk, dir_name, file_list, opened_w>>
  /\ UNCHANGED funcvars

\* lines 174-178: the file is opened for writing and the lines written
WriteFile ==
  /\ pc = "write"
  /\ LET path == FilePath(dir_name, Head(file_list))
     IN /\ opened_w' = Append(opened_w, path)
        /\ files' = [files EXCEPT ![path] = read_lines]
  /\ file_list' = Tail(file_list)
  /\ pc' = "files"
  /\ UNCHANGED <<abstract_tag, resource_tag, no_op, files_missing_abstracts,
                 argv, dirs, listing, walk, dir_name, read_lines,
                 files_missing_titles, opened_r>>
  /\ UNCHANGED funcvars

\* line 152: file_list is exhausted
DirDone ==
  /\ pc = "files"
  /\ file_list = <<>>
  /\ pc' = "walk"
  /\ UNCHANGED <<abstract_tag, resource_tag, no_op, files_missing_abstracts,
                 argv, dirs, listing, files, walk, dir_name, file_list, read_lines,
                 files_missing_titles, opened_r, opened_w>>
  /\ UNCHANGED funcvars

\* lines 180-203: the walk is over and the findings are printed
Report ==
  /\ pc = "walk"
  /\ walk = <<>>
  /\ pc' = "done"
  /\ UNCHANGED <<abstract_tag, resource_tag, no_op, files_missing_abstracts,
                 argv, dirs, listing, files, walk, dir_name, file_list, read_lines,
                 files_missing_titles, opened_r, opened_w>>
  /\ UNCHANGED funcvars

NextProcess ==
  \/ ParseArgs
  \/ Prompt
  \/ WalkSkip
  \/ WalkEnter
  \/ FileSkip
  \/ ReadFile
  \/ WriteFile
  \/ DirDone
  \/ Report

SpecProcess == InitProcess /\ [][NextProcess]_vars

(***************************************************************************)
(* Properties of test_abstract.  The predicates below restate the claims'  *)
(* words; they do not use the operators of the model above.                *)
(***************************************************************************)
Trimmed(line) == strip(line)

\* a preamble line, as the claims define it
PreambleLine(line) ==
  \/ Trimmed(line) = ""
  \/ \E p \in {"#", "/", "[", "=", "ifdef", "ifndef", "assembly_", "toc",
               "include", ":"} : startswith(Trimmed(line), p)

HasMarker(lines) == \E i \in 1..Len(lines) : contains(lines[i], abstract_tag)

HasNonPreamble(lines) == \E i \in 1..Len(lines) : ~PreambleLine(lines[i])

\* index of the first non-preamble line
FirstNonPreamble(lines) ==
  CHOOSE k \in 1..Len(lines) :
    /\ ~PreambleLine(lines[k])
    /\ \A i \in 1..(k - 1) : PreambleLine(lines[i])

MarkerLine == abstract_tag \o "\n"

\* how often call i appended to the missing-abstract list
Appended(i) ==
  Len(hist[i].missing) - (IF i = 1 THEN 0 ELSE Len(hist[i - 1].missing))

\* a call of test_abstract has returned to its caller; hist changes at no
\* other step
Returned == ta.pc = "idle"

\* C1: a dry run and a normal run of test_abstract over the same lines record
\* the document as missing an abstract in the same cases.
C1_DryRunSameFindings ==
  \A i, j \in 1..Len(hist) :
    (hist[i].lines = hist[j].lines /\ hist[i].noop /\ ~hist[j].noop)
      => ((Appended(i) > 0) <=> (Appended(j) > 0))

\* the case of C2: normal mode, no marker, first non-preamble line is prose
C2_Case(i) ==
  /\ ~hist[i].noop
  /\ ~HasMarker(hist[i].lines)
  /\ HasNonPreamble(hist[i].lines)
  /\ ~\E p \in {"|", "*", "include", "."} :
        startswith(Trimmed(hist[i].lines[FirstNonPreamble(hist[i].lines)]), p)

\* C2: in normal mode a document without marker whose first non-preamble line
\* is prose comes back with exactly one marker line inserted immediately before
\* that line, and is not reported as missing an abstract.
C2_MarkerBeforeProse ==
  Returned => \A i \in 1..Len(hist) :
    C2_Case(i) =>
      LET in == hist[i].lines
          k == FirstNonPreamble(in)
      IN /\ hist[i].ret = SubSeq(in, 1, k - 1) \o <<MarkerLine>>
                            \o SubSeq(in, k, Len(in))
         /\ Appended(i) = 0

C2_Witness ==
  \E i \in 1..Len(hist) :
    /\ C2_Case(i)
    /\ FirstNonPreamble(hist[i].lines) = 3
    /\ Len(hist[i].ret) = 4
    /\ hist[i].ret[3] = MarkerLine

\* the case of C3: no marker, first non-preamble line is a list item, a table
\* or a block title
C3_Case(i) ==
  /\ ~HasMarker(hist[i].lines)
  /\ HasNonPreamble(hist[i].lines)
  /\ \E p \in {"*", "|", "."} :
        startswith(Trimmed(hist[i].lines[FirstNonPreamble(hist[i].lines)]), p)

\* C3: in both run modes a document without marker whose first non-preamble
\* line starts, trimmed, with '*', '|' or '.' comes back unchanged and is
\* appended to the missing-abstract list exactly once.
C3_FlaggedUnchanged ==
  Returned => \A i \in 1..Len(hist) :
    C3_Case(i) => (hist[i].ret = hist[i].lines /\ Appended(i) = 1)

C3_Witness ==
  /\ \E i \in 1..Len(hist) :
       /\ C3_Case(i) /\ hist[i].noop
       /\ Len(hist[i].lines) >= 2
       /\ FirstNonPreamble(hist[i].lines) < Len(hist[i].lines)
       /\ CharAt(hist[i].lines[FirstNonPreamble(hist[i].lines)], 1) = " "
  /\ \E i \in 1..Len(hist) : C3_Case(i) /\ ~hist[i].noop

\* C4: test_abstract applied to its own result, in the same run mode, returns
\* that result; and a document that holds the marker comes back unchanged.
C4_Idempotent ==
  Returned =>
  /\ \A i, j \in 1..Len(hist) :
       (hist[j].lines = hist[i].ret /\ hist[j].noop = hist[i].noop)
         => hist[j].ret = hist[i].ret
  /\ \A i \in 1..Len(hist) :
       HasMarker(hist[i].lines) => hist[i].ret = hist[i].lines

C4_Witness ==
  /\ Len(hist) >= 2
  /\ hist[1].ret # hist[1].lines
  /\ hist[2].lines = hist[1].ret
  /\ hist[2].ret = hist[1].ret

\* the running call has examined a non-preamble line
Decided ==
  /\ ta.pc = "loop"
  /\ \E i \in 1..ta.line_no : ~PreambleLine(ta.lines[i])

\* C9: once the first non-preamble line has been examined, no later line of
\* the call inserts a marker or reports the document: each is copied through.
C9_FirstDecisionWins ==
  [][ (Decided /\ ta'.pc = "loop")
        => /\ files_missing_abstracts' = files_missing_abstracts
           /\ ta'.processed_lines =
                Append(ta.processed_lines, ta.lines[ta.line_no + 1]) ]_vars

\* C10: a document of no lines, or of preamble lines only, comes back unchanged
\* in either mode and is not reported.
C10_AllPreambleUntouched ==
  Returned => \A i \in 1..Len(hist) :
    ~HasNonPreamble(hist[i].lines)
      => (hist[i].ret = hist[i].lines /\ Appended(i) = 0)

C10_Witness ==
  /\ Len(hist) = 3
  /\ doc # <<>>
  /\ ~HasMarker(doc)
  /\ \A i \in 1..3 : ~HasNonPreamble(hist[i].lines)
  /\ \E i \in 1..Len(doc) : startswith(doc[i], "[")
  /\ ~no_op

C10_WitnessEmpty ==
  /\ Len(hist) = 3
  /\ doc = <<>>

(***************************************************************************)
(* Properties of test_additional_resources.                                *)
(***************************************************************************)
ResourcesMarkerLine == resource_tag \o "\n"

\* a heading line, as the claim defines it
HeadingLine(line) ==
  \/ startswith(Trimmed(line), ".Additional resources")
  \/ startswith(line, "== Additional resources")

\* the positions (from 1) of the headings that are to get a marker: the
\* heading's index from 0 is at least 2 and the line before is not the marker
Marked(lines) ==
  { h \in 1..Len(lines) :
      /\ HeadingLine(lines[h])
      /\ h - 1 >= 2
      /\ Trimmed(lines[h - 1]) # resource_tag }

\* where line i of the input lands in the output
Landing(lines, i) == i + Cardinality({ h \in Marked(lines) : h <= i })

\* C7: in normal mode the result is the input with one marker line immediately
\* before each heading whose index is at least 2 and whose preceding input line,
\* trimmed, is not the marker; nothing else is added, the input lines keep their
\* order, and in dry-run mode the result is the input.
C7_ResourcesMarker ==
  ar.pc = "done" =>
    IF no_op
    THEN ar.ret = doc
    ELSE /\ Len(ar.ret) = Len(doc) + Cardinality(Marked(doc))
         /\ \A i \in 1..Len(doc) : ar.ret[Landing(doc, i)] = doc[i]
         /\ \A h \in Marked(doc) : ar.ret[Landing(doc, h) - 1] = ResourcesMarkerLine

\* two headings in a row behind a first line: the one at index 1 gets no marker,
\* the one at index 2 gets one
C7_Witness ==
  /\ ar.pc = "done"
  /\ ~no_op
  /\ Len(doc) = 3
  /\ HeadingLine(doc[2]) /\ HeadingLine(doc[3])
  /\ Trimmed(doc[1]) # resource_tag
  /\ Marked(doc) = {3}
  /\ ar.ret = <<doc[1], doc[2], ResourcesMarkerLine, doc[3]>>

\* a heading already preceded by the marker is left alone
C7_WitnessPresent ==
  /\ ar.pc = "done"
  /\ ~no_op
  /\ Len(doc) = 3
  /\ HeadingLine(doc[3])
  /\ Trimmed(doc[2]) = resource_tag
  /\ ar.ret = doc

(***************************************************************************)
(* Properties of test_syntax_updates.                                      *)
(***************************************************************************)
OldToken == ":system-module-type:"
NewToken == ":_module-type:"

Occurrences(s) == { i \in 1..Len(s) : OccursAt(s, OldToken, i) }

\* two occurrences of the deprecated token share a character
Overlapping(s) ==
  \E i, j \in Occurrences(s) : i < j /\ j < i + Len(OldToken)

\* the occurrences a scan from the left meets, resuming behind each one
RECURSIVE ScanFrom(_, _)
ScanFrom(s, i) ==
  IF i > Len(s) THEN {}
  ELSE IF i \in Occurrences(s)
       THEN {i} \union ScanFrom(s, i + Len(OldToken))
       ELSE ScanFrom(s, i + 1)

Scanned(s) == ScanFrom(s, 1)

Shrink == Len(OldToken) - Len(NewToken)

\* out is s with the scanned occurrences replaced and the rest kept
Substituted(s, out) ==
  LET G == Scanned(s)
      before(p) == Cardinality({ g \in G : g < p })
      covered(p) == \E g \in G : g <= p /\ p < g + Len(OldToken)
  IN /\ Len(out) = Len(s) - Shrink * Cardinality(G)
     /\ \A g \in G : OccursAt(out, NewToken, g - Shrink * before(g))
     /\ \A p \in 1..Len(s) :
          ~covered(p) => OccursAt(out, CharAt(s, p), p - Shrink * before(p))

\* C8: in normal mode every occurrence of the deprecated token is replaced, so
\* that no line of the result holds it, and a line without it is unchanged; in
\* dry-run mode every line comes back unchanged.
C8_EveryOccurrenceReplaced ==
  su.pc = "done" =>
    /\ Len(su.ret) = Len(doc)
    /\ \A k \in 1..Len(doc) :
         IF no_op
         THEN su.ret[k] = doc[k]
         ELSE /\ Occurrences(doc[k]) = {} => su.ret[k] = doc[k]
              /\ Occurrences(su.ret[k]) = {}

\* C8, amended: in normal mode each line comes back with the occurrences met by
\* a scan from the left (resuming behind each match) replaced and everything
\* else kept; a line whose occurrences do not overlap comes back without the
\* deprecated token; in dry-run mode every line comes back unchanged.
C8_ScannedReplaced ==
  su.pc = "done" =>
    /\ Len(su.ret) = Len(doc)
    /\ \A k \in 1..Len(doc) :
         IF no_op
         THEN su.ret[k] = doc[k]
         ELSE /\ Substituted(doc[k], su.ret[k])
              /\ ~Overlapping(doc[k]) => Occurrences(su.ret[k]) = {}

C8_Witness ==
  /\ su.pc = "done"
  /\ ~no_op
  /\ \E k \in 1..Len(doc) :
       /\ Cardinality(Occurrences(doc[k])) = 2
       /\ ~Overlapping(doc[k])
       /\ su.ret[k] # doc[k]
       /\ Occurrences(su.ret[k]) = {}
  /\ \E k \in 1..Len(doc) : Overlapping(doc[k]) /\ Occurrences(su.ret[k]) # {}
  /\ \E k \in 1..Len(doc) : Occurrences(doc[k]) = {} /\ su.ret[k] = doc[k]

(***************************************************************************)
(* Properties of process.                                                  *)
(***************************************************************************)
\* C5: in a dry run no document file is opened for writing.
C5_DryRunNoWrites == no_op => opened_w = <<>>

\* a directory named with a leading '.', or one beneath such a directory
Hidden(path) == \E i \in 1..Len(path) : startswith(path[i], ".")

HiddenFiles ==
  { FilePath(WalkName(t), listing[i]) :
      t \in { d \in dirs : Hidden(d) }, i \in 1..Len(listing) }

\* the files the walker is to process
Eligible ==
  { FilePath(WalkName(t), n) :
      t \in { d \in dirs : ~Hidden(d) },
      n \in { x \in { listing[i] : i \in 1..Len(listing) } :
                 endswith(x, "adoc") /\ x # "master.adoc" } }

Times(log, path) == Cardinality({ i \in 1..Len(log) : log[i] = path })

\* C6: no file in or beneath a directory whose name starts with '.', at any
\* depth, is read or rewritten; every other document file that is not
\* master.adoc is processed exactly once in a run.
C6_HiddenSkippedOthersOnce ==
  /\ \A i \in 1..Len(opened_r) : opened_r[i] \notin HiddenFiles
  /\ \A i \in 1..Len(opened_w) : opened_w[i] \notin HiddenFiles
  /\ (pc = "done" /\ opened_r # <<>>) =>
       \A p \in Eligible : Times(opened_r, p) = 1 /\ Times(opened_w, p) = 1

=============================================================================
